---- MODULE Spec2Model ----
(***************************************************************************)
(* Model of the parallel paginated transformation pipeline of              *)
(* mdict-sqlite-utils: runTransformWorkflow (workflows), and MdxDatabase's *)
(* fetchRecordsPaginated, transformHtmlRecordsInParallel (static and       *)
(* generator), processRecordsInParallel, insertRecords, plus the worker    *)
(* function transformHtmlRecords.                                          *)
(*                                                                         *)
(* A paraphrase (string) is a sequence of character codes; only the first  *)
(* code is ever inspected by the program (startsWith '@@@LINK=').          *)
(***************************************************************************)
EXTENDS Integers, Sequences, FiniteSets, TLC

\* ---------------------------------------------------------------- bounds
MaxRowId == 3
MaxPageSize == 3
MaxChunkSize == 2
NumWorkers == 2

\* ------------------------------------------------------ program constants
HTML == 0
LINK == 1
\* the content_type filter argument left undefined selects every kind
AnyKind == {HTML, LINK}

Workers == 1..NumWorkers
PageSizes == 1..MaxPageSize
ChunkSizes == 1..MaxChunkSize
\* iterations after which the chunk loop of a non-positive chunkSize is cut
ChunkCap == MaxRowId + 2

\* ------------------------------------------------------------- utilities
Min(a, b) == IF a < b THEN a ELSE b
Max(a, b) == IF a > b THEN a ELSE b

RECURSIVE Flat(_)
\* Array.prototype.flat() over an array of arrays
Flat(ss) == IF ss = <<>> THEN <<>> ELSE Head(ss) \o Flat(Tail(ss))

JsSliceInclusive(s, a, b) ==
  LET n == Len(s)
      from == IF a < 0 THEN Max(n + a, 0) ELSE Min(a, n)
      to == IF b + 1 < 0 THEN Max(n + b + 1, 0) ELSE Min(b + 1, n)
  IN IF from >= to THEN <<>> ELSE SubSeq(s, from + 1, to)

\* Array.prototype.slice(a, b), negative indices counted from the end
JsSlice(s, a, b) ==
  LET n == Len(s)
      from == IF a < 0 THEN Max(n + a, 0) ELSE Min(a, n)
      to == IF b < 0 THEN Max(n + b, 0) ELSE Min(b, n)
  IN IF from >= to THEN <<>> ELSE SubSeq(s, from + 1, to)

\* Array.prototype.map
Map(f(_), s) == [k \in 1..Len(s) |-> f(s[k])]

\* ------------------------------------------------------------ paraphrases
\* String.prototype.startsWith('@@@LINK='): code 64 stands for the prefix
StartsWithLink(p) == Len(p) > 0 /\ p[1] = 64

\* the caller-supplied transformHtml functions the runs are checked with
TransformFns == {"wrap", "tolink"}

\* the exported transformHtml(html): "wrap" prepends a tag, "tolink" a LINK prefix
ApplyTransform(fn, p) == IF fn = "wrap" THEN <<60>> \o p ELSE <<64>> \o p

\* ------------------------------------------------------------- the source
\* a row of table mdx as SELECTed: entry, paraphrase, content_type, rowid
SourceRow(r, kind) ==
  [entry |-> IF r % 2 = 1 THEN "a" ELSE "b",
   paraphrase |-> IF kind = LINK THEN <<64, r>> ELSE <<r>>,
   content_type |-> kind,
   rowid |-> r]

RECURSIVE SortedRows(_, _)
\* the rows of the rowid set S in ascending rowid order (ORDER BY rowid)
SortedRows(S, kinds) ==
  IF S = {} THEN <<>>
  ELSE LET m == CHOOSE x \in S : \A y \in S : x <= y
       IN <<SourceRow(m, kinds[m])>> \o SortedRows(S \ {m}, kinds)

\* the source tables: any set of rowids (gaps allowed), any kind per row
Sources ==
  UNION {{SortedRows(S, kinds) : kinds \in [S -> {HTML, LINK}]} : S \in SUBSET (1..MaxRowId)}

\* ------------------------------------------------------ pure program code
ValidateNothing(m) == TRUE

\* validateModuleExists: fs.existsSync(modulePath)
ValidateModuleExists(m) == m # "missing"

FetchPageNoLimit(src, filter, last, limit) ==
  SelectSeq(src, LAMBDA r : r.content_type \in filter /\ r.rowid > last)

\* the SQL of fetchRecordsPaginated: WHERE [content_type = ? AND] rowid > ?
\* ORDER BY rowid LIMIT ? (a negative LIMIT is no limit in SQLite)
FetchPage(src, filter, last, limit) ==
  LET m == SelectSeq(src, LAMBDA r : r.content_type \in filter /\ r.rowid > last)
  IN IF limit < 0 THEN m ELSE SubSeq(m, 1, Min(limit, Len(m)))

FetchRecordsUnfiltered(src, filter) == src

\* fetchRecords(contentType): WHERE content_type = ? ORDER BY rowid
FetchRecords(src, filter) == SelectSeq(src, LAMBDA r : r.content_type \in filter)

CursorFilterNone(hbl) == AnyKind

\* fetchHtmlRecordsPaginated passes ContentType.HTML to the cursor,
\* processRecordsInParallel passes undefined
CursorFilter(hbl) == IF hbl THEN {HTML} ELSE AnyKind

WatermarkByCount(recs, last) == last + Len(recs)

\* lastRowId = records[records.length - 1].rowid, run when the cursor is
\* resumed after a yield (recs is the page yielded, empty before the first)
Watermark(recs, last) == IF recs = <<>> THEN last ELSE recs[Len(recs)].rowid

AllPositions(recs) == [p \in 1..Len(recs) |-> p]

\* the positions of the page that
\* records.filter(record => record.content_type === ContentType.HTML) keeps
HtmlPositions(recs) ==
  SelectSeq([p \in 1..Len(recs) |-> p], LAMBDA p : recs[p].content_type = HTML)

\* htmlRecords: the filtered array holds the page's own record objects
FilterHtml(recs) == Map(LAMBDA p : recs[p], HtmlPositions(recs))

\* the worker function's map: { ...record, paraphrase: transformHtml(paraphrase) }
TransformRecords(recs, fn) ==
  Map(LAMBDA r : [r EXCEPT !.paraphrase = ApplyTransform(fn, @)], recs)

CursorNeverEnds(rs) == FALSE

\* if (records.length === 0) break
CursorEnds(rs) == rs = <<>>

MustLoadAlways(w, cache) == TRUE

\* typeof globalThis.transformHtml === 'undefined' ||
\* globalThis.transformModulePath !== modulePath, on worker w (one path per run)
MustLoad(w, cache) == w \notin cache

FirstFulfilled(ts) == \E j \in 1..Len(ts) : ts[j] = "done"

\* Promise.all is fulfilled when every promise given to it is
AllFulfilled(ts) == \A j \in 1..Len(ts) : ts[j] = "done"

PromiseAllByArrival(settled, n) == [k \in 1..n |-> settled[k].val]

\* Promise.all: the fulfilment values in the order of the input promises,
\* whatever the order they settled in (settled lists [idx, val] by arrival)
PromiseAll(settled, n) ==
  LET got == {settled[j] : j \in 1..Len(settled)}
  IN [k \in 1..n |->
        IF \E e \in got : e.idx = k THEN (CHOOSE e \in got : e.idx = k).val ELSE <<>>]

WriteBackHtmlFirst(recs, transformed) ==
  transformed \o SelectSeq(recs, LAMBDA r : r.content_type # HTML)

\* htmlRecords[i].paraphrase = transformedRecords[i].paraphrase: the
\* htmlRecords being the very objects of the page, the page keeps every
\* record at its position
WriteBack(recs, transformed) ==
  LET pos == HtmlPositions(recs)
  IN [p \in 1..Len(recs) |->
        IF \E j \in 1..Len(pos) : pos[j] = p
        THEN [recs[p] EXCEPT !.paraphrase =
                transformed[CHOOSE j \in 1..Len(pos) : pos[j] = p].paraphrase]
        ELSE recs[p]]

DefaultedKindFromPrefix(rec) == IF StartsWithLink(rec.paraphrase) THEN LINK ELSE HTML

\* record.content_type ??= startsWith('@@@LINK=') ? LINK : HTML
DefaultedKind(rec) ==
  IF rec.content_type \in {HTML, LINK} THEN rec.content_type
  ELSE IF StartsWithLink(rec.paraphrase) THEN LINK ELSE HTML

\* stmt.run(entry, paraphrase, content_type); from remembers the rowid the
\* inserted record object carried
InsertRows(recs) ==
  Map(LAMBDA r : [entry |-> r.entry, paraphrase |-> r.paraphrase,
                  content_type |-> DefaultedKind(r), from |-> r.rowid], recs)

\* MdxDatabase.closeAll(): every instance of the set is closed and leaves it
CloseAll(open) == open \ open

AfterConsumerThrowNoReturn == "done"

\* what the for-await loop does when its body throws: it calls the
\* generator's return(), which runs the generator's finally block
AfterConsumerThrow == "terminate"

GeneratorResultSwallowed(pend, byReturn, termOk) == "ok"

\* the completion of the generator once its finally block has awaited
\* pool.terminate(): a rejection inside finally replaces the pending completion,
\* except on return() after a consumer throw, where the loop rethrows its own error
GeneratorResult(pend, byReturn, termOk) ==
  IF byReturn THEN pend ELSE IF termOk THEN pend ELSE "TerminateError"

\* ------------------------------------------------------------------ state
VARIABLES
  source,           \* table mdx of the source database (static)
  pageSize,         \* argument pageSize of the generator
  chunkSize,        \* argument chunkSize of the generator
  htmlBeforeLink,   \* options.htmlBeforeLink
  moduleState,      \* the file at transformModulePath: missing, malformed, ok
  transformFn,      \* the function the module exports
  pc,               \* position of the workflow
  pools,            \* workerpool.pool() calls
  terminateCalls,   \* pool.terminate() calls
  lastRowId,        \* fetchRecordsPaginated: lastRowId
  records,          \* fetchRecordsPaginated: records (the page yielded last)
  queries,          \* stmt.all calls of the cursor
  pages,            \* the rowids of every page the cursor yielded, in order
  cursorDone,       \* the cursor generator has returned
  htmlRecords,      \* argument of the static transformHtmlRecordsInParallel
  i,                \* its loop index
  chunks,           \* its chunks
  tasks,            \* state of each pool.exec promise of the page
  settled,          \* fulfilled chunks, [idx, val], in completion order
  transformedRecords, \* transformedChunks.flat()
  yielded,          \* the array the generator yielded to the workflow
  dest,             \* table mdx of the target database, in insertion order
  writes,           \* committed insertRecords transactions
  dispatched,       \* pool.exec calls
  pending,          \* completion of the generator body when finally is entered
  byReturn,         \* finally was entered through return() of the for-await loop
  termFailed,       \* pool.terminate() rejected
  chunkErr,         \* the error of the first chunk that failed
  loaded,           \* workers whose globalThis caches transformHtml for the path
  loads,            \* import(modulePath) calls per worker
  outcome,          \* running, ok, failed: how runTransformWorkflow settled
  error,            \* the error runTransformWorkflow rejected with
  openDbs           \* MdxDatabase.instances: the connections that are open

vars ==
  <<source, pageSize, chunkSize, htmlBeforeLink, moduleState, transformFn, pc, pools,
    terminateCalls, lastRowId, records, queries, pages, cursorDone, htmlRecords, i,
    chunks, tasks, settled, transformedRecords, yielded, dest, writes, dispatched,
    pending, byReturn, termFailed, chunkErr, loaded, loads, outcome, error, openDbs>>

params == <<source, pageSize, chunkSize, htmlBeforeLink, moduleState, transformFn>>
cursor == <<lastRowId, records, queries, pages, cursorDone>>
scheduler == <<htmlRecords, i, chunks, tasks, settled, transformedRecords>>
workers == <<loaded, loads>>
result == <<outcome, error>>

\* the state when runTransformWorkflow is called with page and chunk sizes
\* drawn from PS and CS
InitWith(PS, CS) ==
  /\ source \in Sources
  /\ pageSize \in PS
  /\ chunkSize \in CS
  /\ htmlBeforeLink \in BOOLEAN
  /\ moduleState \in {"missing", "malformed", "ok"}
  /\ transformFn \in TransformFns
  /\ pc = "start"
  /\ pools = 0
  /\ terminateCalls = 0
  /\ lastRowId = 0
  /\ records = <<>>
  /\ queries = 0
  /\ pages = <<>>
  /\ cursorDone = FALSE
  /\ htmlRecords = <<>>
  /\ i = 0
  /\ chunks = <<>>
  /\ tasks = <<>>
  /\ settled = <<>>
  /\ transformedRecords = <<>>
  /\ yielded = <<>>
  /\ dest = <<>>
  /\ writes = 0
  /\ dispatched = 0
  /\ pending = "none"
  /\ byReturn = FALSE
  /\ termFailed = FALSE
  /\ chunkErr = "none"
  /\ loaded = {}
  /\ loads = [w \in Workers |-> 0]
  /\ outcome = "running"
  /\ error = "none"
  /\ openDbs = {"source", "target"}

Init == InitWith(PageSizes, ChunkSizes)

\* runTransformWorkflow settles: resolves (err = "none") or rejects with err
Settle(err) ==
  /\ pc' = "done"
  /\ outcome' = IF err = "none" THEN "ok" ELSE "failed"
  /\ error' = err

\* ---------------------------------------------------------------- actions
\* runTransformWorkflow up to the for-await loop: validateModuleExists, then
\* progressBar.start(getTotalRecordCount(..)), a read that may throw
Start ==
  /\ pc = "start"
  /\ IF ~ValidateModuleExists(moduleState)
     THEN Settle("ModuleNotFound")
     ELSE \E readOk \in BOOLEAN :
            IF readOk THEN pc' = "pool" /\ UNCHANGED result
            ELSE Settle("ReadError")
  /\ UNCHANGED <<openDbs, params, pools, terminateCalls, cursor, scheduler, yielded, dest, writes,
                 dispatched, pending, byReturn, termFailed, chunkErr, workers>>

\* the first next() of the async generator: const pool = workerpool.pool()
CreatePool ==
  /\ pc = "pool"
  /\ pools' = pools + 1
  /\ pc' = "fetch"
  /\ UNCHANGED <<openDbs, params, terminateCalls, cursor, scheduler, yielded, dest, writes,
                 dispatched, pending, byReturn, termFailed, chunkErr, workers, result>>

\* one round of fetchRecordsPaginated's do-loop, entered by next(): the
\* watermark moves past the page yielded before, the statement runs (and may
\* throw); an empty result ends the cursor, another one is yielded and is
\* partitioned by the generator that pulled it
Fetch ==
  /\ pc = "fetch"
  /\ LET last == Watermark(records, lastRowId)
         rs == FetchPage(source, CursorFilter(htmlBeforeLink), last, pageSize)
     IN /\ lastRowId' = last
        /\ \E readOk \in BOOLEAN :
             IF ~readOk
             THEN /\ pending' = "ReadError"
                  /\ pc' = "terminate"
                  /\ UNCHANGED <<records, queries, pages, cursorDone, htmlRecords, i, chunks>>
             ELSE /\ queries' = queries + 1
                  /\ IF CursorEnds(rs)
                     THEN /\ cursorDone' = TRUE
                          /\ pending' = "ok"
                          /\ pc' = "terminate"
                          /\ UNCHANGED <<records, pages, htmlRecords, i, chunks>>
                     ELSE /\ records' = rs
                          /\ pages' = Append(pages, Map(LAMBDA r : r.rowid, rs))
                          /\ htmlRecords' = IF htmlBeforeLink THEN rs ELSE FilterHtml(rs)
                          /\ i' = 0
                          /\ chunks' = <<>>
                          /\ pc' = "chunk"
                          /\ UNCHANGED <<cursorDone, pending>>
  /\ UNCHANGED <<openDbs, params, pools, terminateCalls, tasks, settled, transformedRecords, yielded,
                 dest, writes, dispatched, byReturn, termFailed, chunkErr, workers, result>>

\* one iteration of: for (let i = 0; i < htmlRecords.length; i += chunkSize)
ChunkLoop ==
  /\ pc = "chunk"
  /\ i < Len(htmlRecords)
  /\ Len(chunks) < ChunkCap
  /\ chunks' = Append(chunks, JsSlice(htmlRecords, i, i + chunkSize))
  /\ i' = i + chunkSize
  /\ UNCHANGED <<openDbs, params, pc, pools, terminateCalls, cursor, htmlRecords, tasks, settled,
                 transformedRecords, yielded, dest, writes, dispatched, pending, byReturn,
                 termFailed, chunkErr, workers, result>>

\* the loop is left: chunks.map(chunk => pool.exec(..)) hands every chunk to
\* the pool at once; Promise.all of no promise is fulfilled with []
Dispatch ==
  /\ pc = "chunk"
  /\ ~(i < Len(htmlRecords))
  /\ tasks' = [k \in 1..Len(chunks) |-> "pending"]
  /\ settled' = <<>>
  /\ dispatched' = dispatched + Len(chunks)
  /\ IF chunks = <<>>
     THEN pc' = "reassemble" /\ transformedRecords' = <<>>
     ELSE pc' = "await" /\ UNCHANGED transformedRecords
  /\ UNCHANGED <<openDbs, params, pools, terminateCalls, cursor, htmlRecords, i, chunks, yielded,
                 dest, writes, pending, byReturn, termFailed, chunkErr, workers, result>>

\* worker w runs transformHtmlRecords on chunk k: it imports the module
\* unless its globalThis caches it, rejects when the import fails or
\* transformHtml is no function or throws, and else returns the mapped chunk.
\* The first rejection rejects Promise.all; the last fulfilment fulfils it.
WorkerRun(k, w) ==
  /\ pc \in {"await", "terminate"}
  /\ terminateCalls = 0
  /\ k \in 1..Len(tasks)
  /\ tasks[k] = "pending"
  /\ LET mustLoad == MustLoad(w, loaded)
         loadErr == IF ~mustLoad \/ moduleState = "ok" THEN "none"
                    ELSE IF moduleState = "missing" THEN "ModuleNotFound" ELSE "BadExport"
     IN /\ loads' = IF mustLoad THEN [loads EXCEPT ![w] = @ + 1] ELSE loads
        /\ loaded' = IF mustLoad /\ loadErr = "none" THEN loaded \cup {w} ELSE loaded
        /\ \E throws \in BOOLEAN :
             LET err == IF loadErr # "none" THEN loadErr
                        ELSE IF throws THEN "TransformThrew" ELSE "none"
                 done == Append(settled, [idx |-> k, val |-> TransformRecords(chunks[k], transformFn)])
             IN IF err # "none"
                THEN /\ tasks' = [tasks EXCEPT ![k] = "failed"]
                     /\ UNCHANGED <<settled, transformedRecords>>
                     /\ IF pc = "await"
                        THEN pending' = err /\ chunkErr' = err /\ pc' = "terminate"
                        ELSE UNCHANGED <<pending, chunkErr, pc>>
                ELSE /\ tasks' = [tasks EXCEPT ![k] = "done"]
                     /\ settled' = done
                     /\ UNCHANGED <<pending, chunkErr>>
                     /\ IF pc = "await" /\ AllFulfilled(tasks')
                        THEN /\ transformedRecords' = Flat(PromiseAll(done, Len(chunks)))
                             /\ pc' = "reassemble"
                        ELSE UNCHANGED <<transformedRecords, pc>>
  /\ UNCHANGED <<openDbs, params, pools, terminateCalls, cursor, htmlRecords, i, chunks, yielded,
                 dest, writes, dispatched, byReturn, termFailed, result>>

\* after the await: processRecordsInParallel writes the transformed
\* paraphrases back into the page and yields the page;
\* transformHtmlRecordsInParallel yields the transformed records
Reassemble ==
  /\ pc = "reassemble"
  /\ IF htmlBeforeLink
     THEN yielded' = transformedRecords /\ UNCHANGED records
     ELSE records' = WriteBack(records, transformedRecords) /\ yielded' = records'
  /\ pc' = "write"
  /\ UNCHANGED <<openDbs, params, pools, terminateCalls, lastRowId, queries, pages, cursorDone,
                 scheduler, dest, writes, dispatched, pending, byReturn, termFailed,
                 chunkErr, workers, result>>

\* the body of the for-await loop: targetDatabase.insertRecords(page), one
\* transaction that commits whole or throws
Write ==
  /\ pc = "write"
  /\ \E writeOk \in BOOLEAN :
       IF writeOk
       THEN /\ dest' = dest \o InsertRows(yielded)
            /\ writes' = writes + 1
            /\ pc' = "fetch"
            /\ UNCHANGED <<pending, byReturn, result>>
       ELSE /\ pending' = "WriteError"
            /\ byReturn' = TRUE
            /\ IF AfterConsumerThrow = "done"
               THEN Settle("WriteError")
               ELSE pc' = AfterConsumerThrow /\ UNCHANGED result
            /\ UNCHANGED <<dest, writes>>
  /\ UNCHANGED <<openDbs, params, pools, terminateCalls, cursor, scheduler, yielded, dispatched,
                 termFailed, chunkErr, workers>>

\* finally { await pool.terminate() }, which may reject; then the workflow's
\* own finally (progressBar.stop) and either the rejection of the workflow or
\* what follows the loop
Terminate ==
  /\ pc = "terminate"
  /\ terminateCalls' = terminateCalls + 1
  /\ \E termOk \in BOOLEAN :
       /\ termFailed' = ~termOk
       /\ LET res == GeneratorResult(pending, byReturn, termOk)
          IN IF res # "ok" THEN Settle(res)
             ELSE IF htmlBeforeLink THEN pc' = "links" /\ UNCHANGED result
             ELSE Settle("none")
  /\ UNCHANGED <<openDbs, params, pools, cursor, scheduler, yielded, dest, writes, dispatched,
                 pending, byReturn, chunkErr, workers>>

\* targetDatabase.insertRecords(sourceDatabase.fetchLinkRecords())
Links ==
  /\ pc = "links"
  /\ \E readOk \in BOOLEAN, writeOk \in BOOLEAN :
       IF ~readOk THEN Settle("ReadError") /\ UNCHANGED <<dest, writes>>
       ELSE IF ~writeOk THEN Settle("WriteError") /\ UNCHANGED <<dest, writes>>
       ELSE /\ dest' = dest \o InsertRows(FetchRecords(source, {LINK}))
            /\ writes' = writes + 1
            /\ Settle("none")
  /\ UNCHANGED <<openDbs, params, pools, terminateCalls, cursor, scheduler, yielded, dispatched,
                 pending, byReturn, termFailed, chunkErr, workers>>

\* program.parseAsync().catch(console.error).finally(() => closeAll()):
\* the command's promise has settled
Finish ==
  /\ pc = "done"
  /\ openDbs' = CloseAll(openDbs)
  /\ pc' = "closed"
  /\ UNCHANGED <<params, pools, terminateCalls, cursor, scheduler, yielded, dest, writes,
                 dispatched, pending, byReturn, termFailed, chunkErr, workers, result>>

\* process.on('SIGINT' / 'SIGTERM'): MdxDatabase.closeAll(); process.exit(0),
\* at any turn of the event loop while the process lives
Signal ==
  /\ pc \notin {"closed", "exited", "crashed"}
  /\ openDbs' = CloseAll(openDbs)
  /\ pc' = "exited"
  /\ UNCHANGED <<params, pools, terminateCalls, cursor, scheduler, yielded, dest, writes,
                 dispatched, pending, byReturn, termFailed, chunkErr, workers, result>>

\* the chunk loop of a chunkSize that never moves i past the length keeps
\* pushing chunks until the heap is exhausted, which kills the process
\* (no finally block runs, the workflow's promise never settles)
OutOfMemory ==
  /\ pc = "chunk"
  /\ i < Len(htmlRecords)
  /\ Len(chunks) >= ChunkCap
  /\ pc' = "crashed"
  /\ UNCHANGED <<openDbs, params, pools, terminateCalls, cursor, scheduler, yielded, dest,
                 writes, dispatched, pending, byReturn, termFailed, chunkErr, workers,
                 result>>

Next ==
  \/ Start
  \/ CreatePool
  \/ Fetch
  \/ ChunkLoop
  \/ Dispatch
  \/ \E k \in 1..ChunkCap, w \in Workers : WorkerRun(k, w)
  \/ Reassemble
  \/ Write
  \/ Terminate
  \/ Links
  \/ Finish
  \/ Signal

Spec == Init /\ [][Next]_vars

\* page and chunk sizes as a caller of the two generators may pass them:
\* neither is validated, so zero and negative numbers get through
AnyPageSizes == (0 - 1)..MaxPageSize
AnyChunkSizes == (0 - 1)..MaxChunkSize

InitAny == InitWith(AnyPageSizes, AnyChunkSizes)

NextAny == Next \/ OutOfMemory

SpecAny == InitAny /\ [][NextAny]_vars

\* ------------------------------------------------------ notions of the claims
\* the source rowids of the rows of the destination, in insertion order
Froms(d) == Map(LAMBDA r : r.from, d)

Rowids(recs) == Map(LAMBDA r : r.rowid, recs)

\* the source record with rowid rid
SrcOf(rid) == CHOOSE r \in {source[j] : j \in 1..Len(source)} : r.rowid = rid

\* s is an initial segment of t
IsPrefix(s, t) == Len(s) <= Len(t) /\ s = SubSeq(t, 1, Len(s))

\* runTransformWorkflow has resolved
Completed == pc = "done" /\ outcome = "ok"

\* the pages the cursor yielded before the one yielded last
EarlierPages == IF pages = <<>> THEN <<>> ELSE SubSeq(pages, 1, Len(pages) - 1)

\* ------------------------------------------------------------------ claims
\* C1: a completed run, in either mode and for every page and chunk size,
\* leaves exactly one destination row per source record: the destination has
\* as many rows as the source, and every source rowid was inserted exactly once.
C1_ExactlyOnce ==
  Completed =>
    /\ Len(dest) = Len(source)
    /\ \A j \in 1..Len(source) :
         Cardinality({d \in 1..Len(dest) : dest[d].from = source[j].rowid}) = 1

\* a completed run over a full source read in several pages, with both kinds
C1_Witness ==
  /\ Completed
  /\ Len(source) = MaxRowId
  /\ Len(pages) >= 2
  /\ \E a, b \in 1..Len(source) : source[a].content_type # source[b].content_type

\* C2: in Interleaved mode the destination is at every moment the source's
\* first rows in rowid order (so A before B in the source is inserted before
\* B), and after a completed run it is the whole source in rowid order.
C2_InterleavedOrder ==
  ~htmlBeforeLink =>
    /\ IsPrefix(Froms(dest), Rowids(source))
    /\ (Completed => Froms(dest) = Rowids(source))

\* a completed Interleaved run whose first page holds a LINK record before
\* an HTML record, followed by another page
C2_Witness ==
  /\ ~htmlBeforeLink
  /\ Completed
  /\ Len(pages) >= 2
  /\ Len(pages[1]) >= 2
  /\ source[1].content_type = LINK
  /\ source[2].content_type = HTML

\* C3: after a completed TransformableFirst run no pass-through (LINK) row
\* precedes a transformed (HTML) row in the destination, and two rows of the
\* same kind are in the destination in their source rowid order.
C3_HtmlBeforeLink ==
  (htmlBeforeLink /\ Completed) =>
    \A a, b \in 1..Len(dest) :
      a < b =>
        /\ (SrcOf(dest[a].from).content_type = LINK
              => SrcOf(dest[b].from).content_type = LINK)
        /\ (SrcOf(dest[a].from).content_type = SrcOf(dest[b].from).content_type
              => dest[a].from < dest[b].from)

\* a completed TransformableFirst run over a source that starts with a LINK
\* record and whose HTML records took two pages
C3_Witness ==
  /\ htmlBeforeLink
  /\ Completed
  /\ Len(pages) >= 2
  /\ Len(source) >= 1
  /\ source[1].content_type = LINK
  /\ Len(dest) = Len(source)

\* C4: terminate() is called at most once per pool, never without a pool,
\* and once the generator is finished (the workflow has gone on to the LINK
\* pass or has settled) every pool created has been terminated exactly once.
C4_TerminateOnce ==
  /\ terminateCalls <= pools
  /\ pools <= 1
  /\ (pc \in {"links", "done"} => terminateCalls = pools)

\* a run ended by insertRecords throwing inside the for-await loop
C4_Witness ==
  /\ pc = "done"
  /\ byReturn
  /\ error = "WriteError"
  /\ terminateCalls = 1

\* C5: every page the cursor yields is non-empty, ascending by rowid, of at
\* most pageSize rowids, all above the last rowid of the page before; the
\* pages together are an initial segment of the matching records, and all of
\* them once the cursor has ended; the cursor ends on its first empty query.
C5_Cursor ==
  LET matching == Rowids(FetchRecords(source, CursorFilter(htmlBeforeLink)))
  IN /\ \A n \in 1..Len(pages) :
          /\ pages[n] # <<>>
          /\ Len(pages[n]) <= pageSize
          /\ \A a, b \in 1..Len(pages[n]) : a < b => pages[n][a] < pages[n][b]
          /\ pages[n][1] > (IF n = 1 THEN 0 ELSE pages[n - 1][Len(pages[n - 1])])
     /\ IsPrefix(Flat(pages), matching)
     /\ (cursorDone => Flat(pages) = matching)
     /\ queries = Len(pages) + (IF cursorDone THEN 1 ELSE 0)

\* a filtered cursor that ended after several pages, the second starting
\* beyond a record the filter leaves out
C5_Witness ==
  /\ cursorDone
  /\ htmlBeforeLink
  /\ Len(pages) >= 2
  /\ Len(Flat(pages)) < Len(source)
  /\ pages[2][1] > pages[1][Len(pages[1])] + 1

\* C6: when Promise.all has been fulfilled, the result of the Chunk Scheduler
\* has the length of its input and its element k is input element k with the
\* transform applied to the paraphrase, whatever order the chunks completed in.
C6_SchedulerOrder ==
  pc = "reassemble" =>
    /\ Len(transformedRecords) = Len(htmlRecords)
    /\ \A k \in 1..Len(htmlRecords) :
         transformedRecords[k] =
           [htmlRecords[k] EXCEPT !.paraphrase = ApplyTransform(transformFn, @)]

\* a page whose second chunk completed before its first
C6_Witness ==
  /\ pc = "reassemble"
  /\ Len(settled) >= 2
  /\ settled[1].idx = 2

\* C7: every destination row has the entry and content_type of the source
\* record it was made from; the paraphrase of an HTML record is transformHtml
\* applied once to the source paraphrase, that of a LINK record is the source's.
C7_Frame ==
  \A d \in 1..Len(dest) :
    LET s == SrcOf(dest[d].from)
    IN /\ dest[d].entry = s.entry
       /\ dest[d].content_type = s.content_type
       /\ dest[d].paraphrase =
            IF s.content_type = HTML THEN ApplyTransform(transformFn, s.paraphrase)
            ELSE s.paraphrase

\* a completed Interleaved run that wrote an HTML and a LINK record of one page
C7_Witness ==
  /\ Completed
  /\ ~htmlBeforeLink
  /\ Len(dest) >= 2
  /\ dest[1].content_type = LINK
  /\ dest[2].content_type = HTML
  /\ Len(pages[1]) >= 2

\* C8 as stated: a run that failed with a load error (module missing, or
\* without an exported function transformHtml) created no pool, queried and
\* fetched no page, dispatched no chunk and wrote nothing.
C8_LoadErrorBeforeWork ==
  (pc = "done" /\ error \in {"ModuleNotFound", "BadExport"}) =>
    /\ pools = 0
    /\ queries = 0
    /\ pages = <<>>
    /\ dispatched = 0
    /\ dest = <<>>

\* C8 amended: a missing module fails the run before any pool, query, page,
\* dispatch or write; a malformed module is found only by a dispatched chunk,
\* with the pool created and a page fetched, and then the destination holds
\* exactly the pages yielded before the page of that chunk.
C8_LoadErrors ==
  /\ (pc = "done" /\ error = "ModuleNotFound") =>
       /\ pools = 0
       /\ queries = 0
       /\ pages = <<>>
       /\ dispatched = 0
       /\ dest = <<>>
  /\ (pc = "done" /\ error = "BadExport") => chunkErr = "BadExport"
  /\ chunkErr = "BadExport" =>
       /\ pools = 1
       /\ pages # <<>>
       /\ dispatched >= 1
       /\ Froms(dest) = Flat(EarlierPages)

\* an Interleaved run with a malformed module that wrote a page without HTML
\* records before a chunk of the next page met the load error
C8_Witness ==
  /\ pc = "done"
  /\ error = "BadExport"
  /\ dest # <<>>

\* C9 as stated: once a chunk of a page has failed, the destination holds
\* exactly the pages before that page, one write each, no page was queried
\* after it, the run is only being torn down, and it settles by rejecting
\* with the chunk's error.
C9_ChunkFailure ==
  chunkErr # "none" =>
    /\ pc \in {"terminate", "done"}
    /\ Froms(dest) = Flat(EarlierPages)
    /\ writes = Len(pages) - 1
    /\ queries = Len(pages)
    /\ (pc = "done" => outcome = "failed" /\ error = chunkErr)

\* what holds of a chunk failure whether or not terminate() rejects as well:
\* the statement of C9 with the rejection of the workflow being the chunk's
\* error only when terminate() resolved
ChunkFailureApartFromTeardown ==
  chunkErr # "none" =>
    /\ pc \in {"terminate", "done", "closed", "exited"}
    /\ Froms(dest) = Flat(EarlierPages)
    /\ writes = Len(pages) - 1
    /\ queries = Len(pages)
    /\ (pc = "done" => outcome = "failed" /\ error \in {chunkErr, "TerminateError"})
    /\ (pc = "done" /\ ~termFailed => error = chunkErr)

\* C10 as stated: when pool.terminate() rejected, the workflow settles as
\* was determined when the finally block was entered: resolved if the
\* cursor was exhausted, rejected with the pending error otherwise.
C10_TerminateNoMask ==
  (pc = "done" /\ termFailed) =>
    IF pending = "ok" THEN outcome = "ok" ELSE error = pending

\* C11 as stated: a completed run over an empty source, in either mode, asked
\* the cursor once, dispatched no chunk and made no insertRecords call.
C11_EmptySourceNoWrite ==
  (source = <<>> /\ Completed) =>
    /\ queries = 1
    /\ pages = <<>>
    /\ dispatched = 0
    /\ writes = 0

\* C11 amended: over an empty source the cursor never yields a page, no chunk
\* is ever dispatched and no row is ever written; a completed run asked the
\* cursor once and made no insertRecords call in Interleaved mode and exactly
\* one, of an empty batch of LINK records, in TransformableFirst mode.
C11_EmptySource ==
  source = <<>> =>
    /\ pages = <<>>
    /\ dispatched = 0
    /\ dest = <<>>
    /\ (Completed =>
          /\ queries = 1
          /\ cursorDone
          /\ writes = IF htmlBeforeLink THEN 1 ELSE 0)

\* a completed TransformableFirst run over an empty source
C11_Witness ==
  /\ source = <<>>
  /\ Completed
  /\ htmlBeforeLink
  /\ queries = 1

\* C12 as stated: when the process has exited on SIGINT or SIGTERM, every
\* database connection is closed and every worker pool created has been
\* terminated.
C12_InterruptClosesAll ==
  pc = "exited" =>
    /\ openDbs = {}
    /\ terminateCalls = pools

\* what the signal handlers do achieve: both connections are closed whenever
\* the process has exited on a signal
InterruptClosesConnections == pc = "exited" => openDbs = {}

\* the destination row the pipeline is to make of source record r
ExpectedRow(r) ==
  [entry |-> r.entry,
   paraphrase |-> IF r.content_type = HTML THEN ApplyTransform(transformFn, r.paraphrase)
                  ELSE r.paraphrase,
   content_type |-> r.content_type,
   from |-> r.rowid]

\* the destination as a function of source, mode and transform function alone
ExpectedDest ==
  IF htmlBeforeLink
  THEN Map(ExpectedRow, SelectSeq(source, LAMBDA r : r.content_type = HTML))
         \o Map(ExpectedRow, SelectSeq(source, LAMBDA r : r.content_type = LINK))
  ELSE Map(ExpectedRow, source)

\* C13: the destination of a completed run is determined by the source, the
\* mode and the transform function: whatever the page size, the chunk size,
\* the workers the chunks ran on and the order they completed in, it is the
\* same sequence of rows with the same contents, so any two such runs agree.
C13_Deterministic == Completed => dest = ExpectedDest

\* a completed run whose chunks of one record each completed out of order
C13_Witness ==
  /\ Completed
  /\ chunkSize = 1
  /\ Len(settled) >= 2
  /\ settled[1].idx = 2
  /\ Len(dest) = MaxRowId

\* some chunk handed to the pool has not returned
InFlight == {k \in 1..Len(tasks) : tasks[k] = "pending"}

\* C14: a page is requested from the cursor, and a page is written, only when
\* no chunk is in flight; when the next page is requested every page yielded
\* so far has been written, while a page is in work exactly the pages before it
\* have been, in fetch order; and every chunk in flight holds records of the
\* page yielded last only.
C14_IntraPage ==
  /\ pc \in {"fetch", "chunk", "reassemble", "write"} => InFlight = {}
  /\ pc = "fetch" => writes = Len(pages)
  /\ pc \in {"chunk", "await", "reassemble", "write"} => writes = Len(pages) - 1
  /\ pc \in {"fetch", "chunk", "await", "reassemble", "write", "terminate"} =>
       Froms(dest) = Flat(SubSeq(pages, 1, writes))
  /\ \A k \in InFlight : \A n \in 1..Len(chunks[k]) :
       \E m \in 1..Len(pages[Len(pages)]) : pages[Len(pages)][m] = chunks[k][n].rowid

\* the cursor is asked for the next page after a page of two chunks
C14_Witness ==
  /\ pc = "fetch"
  /\ Len(pages) >= 1
  /\ Len(tasks) >= 2
  /\ writes = 1

\* the number of pages of pageSize records that n records make
PagesOf(n) == (n + pageSize - 1) \div pageSize

\* C15: the first writes are the cursor's pages, one insertRecords
\* transaction per page in order, whether or not the page holds an HTML record;
\* the only write beyond them is the single final one of TransformableFirst
\* mode, which holds all LINK records; a completed run has made one write for
\* each page of pageSize matching source records, plus that final one.
C15_WritesPerPage ==
  /\ IF writes <= Len(pages)
     THEN Froms(dest) = Flat(SubSeq(pages, 1, writes))
     ELSE /\ htmlBeforeLink
          /\ cursorDone
          /\ writes = Len(pages) + 1
          /\ Froms(dest) = Flat(pages) \o Rowids(FetchRecords(source, {LINK}))
  /\ Completed =>
       /\ Len(pages) = PagesOf(Len(FetchRecords(source, CursorFilter(htmlBeforeLink))))
       /\ writes = Len(pages) + (IF htmlBeforeLink THEN 1 ELSE 0)

\* a completed Interleaved run that wrote two pages, one of them without any
\* HTML record
C15_Witness ==
  /\ Completed
  /\ ~htmlBeforeLink
  /\ writes = 2
  /\ Len(pages) = 2
  /\ \A n \in 1..Len(pages[2]) : SrcOf(pages[2][n]).content_type = LINK

RECURSIVE LoadsUpTo(_)
\* the import(modulePath) calls of workers 1..n together
LoadsUpTo(n) == IF n = 0 THEN 0 ELSE loads[n] + LoadsUpTo(n - 1)

\* C16: with a loadable module a worker imports it at most once in a run,
\* namely when it first runs a chunk, and holds it cached from then on, so
\* later chunks on that worker reuse it; with a module that cannot be loaded
\* no worker ever caches anything, no chunk is ever fulfilled, and every
\* import attempted is a chunk that failed.
C16_WorkerCache ==
  /\ moduleState = "ok" =>
       \A w \in Workers : loads[w] <= 1 /\ (w \in loaded <=> loads[w] = 1)
  /\ moduleState # "ok" =>
       /\ loaded = {}
       /\ \A k \in 1..Len(tasks) : tasks[k] # "done"
       /\ LoadsUpTo(NumWorkers) = Cardinality({k \in 1..Len(tasks) : tasks[k] = "failed"})

\* a completed run whose chunks, two or more, all ran on one worker, which
\* imported the module once
C16_Witness ==
  /\ Completed
  /\ moduleState = "ok"
  /\ dispatched >= 2
  /\ Cardinality(loaded) = 1
  /\ LoadsUpTo(NumWorkers) = 1

\* the state Terminated of the run: the workflow has returned or thrown and
\* every pool created has been terminated
Terminated == pc \in {"done", "closed"} /\ outcome # "running" /\ terminateCalls = pools

\* C17 as stated, for a run that is not interrupted, in the form a finite run
\* refutes: whatever page size and chunk size were passed, a run that has
\* come to its end has come to Terminated (it never ends anywhere else).
C17_EndsTerminated == pc \in {"done", "closed", "crashed"} => Terminated

\* what holds of the sizes that are positive: the chunk loop makes at most
\* one chunk per record and the run never dies in it
PositiveChunkSizeLoopEnds ==
  chunkSize >= 1 => (pc # "crashed" /\ Len(chunks) <= Len(htmlRecords))

\* the destination holds a row made from a LINK record of the source
LinkWritten == \E d \in 1..Len(dest) : SrcOf(dest[d].from).content_type = LINK

\* the pass over the HTML records has failed: a fetch, a chunk or a write
\* failed, or pool.terminate() rejected
HtmlPassFailed == pending \notin {"none", "ok"} \/ termFailed

\* C18: in TransformableFirst mode the workflow is at the LINK pass, and a
\* LINK record is in the destination, only when the HTML cursor is exhausted,
\* every HTML page is written and the pool has been terminated without error;
\* once the HTML pass has failed the LINK pass is never entered and no LINK
\* record is ever written.
C18_PassesDisjoint ==
  htmlBeforeLink =>
    /\ pc = "links" =>
         /\ cursorDone
         /\ terminateCalls = 1
         /\ ~HtmlPassFailed
         /\ writes = Len(pages)
         /\ Froms(dest) = Flat(pages)
    /\ LinkWritten =>
         /\ cursorDone
         /\ terminateCalls = 1
         /\ ~HtmlPassFailed
         /\ writes = Len(pages) + 1
    /\ HtmlPassFailed => (pc # "links" /\ ~LinkWritten /\ writes <= Len(pages))

\* a completed TransformableFirst run that wrote two HTML pages and then a
\* LINK record
C18_Witness ==
  /\ htmlBeforeLink
  /\ Completed
  /\ Len(pages) >= 2
  /\ LinkWritten
  /\ writes = Len(pages) + 1

\* a content_type that is null or undefined
Unspecified == 0 - 1

\* paraphrases with and without the LINK prefix, and the empty one
SomeParaphrases == {<<>>, <<1>>, <<60, 1>>, <<64>>, <<64, 1>>}

\* the rows of kind k in a table or batch
CountKind(rows, k) == Cardinality({j \in 1..Len(rows) : rows[j].content_type = k})

\* C19: insertRecords keeps a specified kind whatever the paraphrase and
\* derives it from the '@@@LINK=' prefix only when it is unspecified; so every
\* destination row has the kind of its source record, also an HTML record
\* whose transformed paraphrase begins with the prefix, and after a completed
\* run the destination has as many HTML and as many LINK rows as the source.
C19_KindKept ==
  /\ \A p \in SomeParaphrases :
       /\ \A k \in {HTML, LINK} : DefaultedKind([content_type |-> k, paraphrase |-> p]) = k
       /\ DefaultedKind([content_type |-> Unspecified, paraphrase |-> p])
            = (IF StartsWithLink(p) THEN LINK ELSE HTML)
  /\ \A d \in 1..Len(dest) : dest[d].content_type = SrcOf(dest[d].from).content_type
  /\ \A k \in {HTML, LINK} : CountKind(dest, k) <= CountKind(source, k)
  /\ Completed => \A k \in {HTML, LINK} : CountKind(dest, k) = CountKind(source, k)

\* a completed run that stored, as HTML, a record whose transformed
\* paraphrase begins with the LINK prefix, next to a LINK record
C19_Witness ==
  /\ Completed
  /\ transformFn = "tolink"
  /\ \E d \in 1..Len(dest) : dest[d].content_type = HTML /\ StartsWithLink(dest[d].paraphrase)
  /\ \E d \in 1..Len(dest) : dest[d].content_type = LINK

====
